---- MODULE Spec2Model ----
(***************************************************************************)
(* Copperx Payout Bot (src/bot.py): the conversation/session engine.       *)
(*                                                                         *)
(* The state is the MySQL table `users`, the three ConversationHandler     *)
(* state dictionaries (send_conv, withdraw_conv, login_conv), the          *)
(* dispatcher's per-user `user_data` dictionary and the deposit bindings   *)
(* made by start_pusher.  Every handler of bot.py is one action; the       *)
(* dispatcher's choice of the handler (first registered handler whose      *)
(* check matches, main() lines 1196-1237) is the guard of the action.      *)
(***************************************************************************)
EXTENDS Integers, Sequences, FiniteSets, TLC

(***************************************************************************)
(* Bounds and scaled constants                                             *)
(***************************************************************************)
\* The clock counts ticks; datetime.now() has sub-second resolution, the
\* stored token_expiry string ("%Y-%m-%d %H:%M:%S") has whole seconds only.
TicksPerSecond == 2
\* timedelta(hours=1) in the (scaled) seconds of the model clock.
HourSeconds == 1
\* Last tick of the clock.
MaxNow == 2
\* Largest number of deposit bindings one chat holds on one channel.
MaxBindings == 2

Users == {"u1", "u2"}
\* accessToken values the authenticate endpoint may hand out.
Tokens == {"tok1"}
Orgs == {"org1"}
Sids == {"sid1"}
\* A column or dictionary entry holding None / NULL (string-valued fields).
None == "None"

(***************************************************************************)
(* Message texts are tuples of characters, so that the checks of the code  *)
(* (regular expression, isdigit, float) are computed on them.              *)
(***************************************************************************)
Digits == {"0", "1", "2", "3", "4", "5", "6", "7", "8", "9"}
\* A missing text (None, or the empty string: both falsy in Python).
NoText == << >>
EmailText == <<"a", "@", "b", ".", "c">>
WalletText == <<"0", "x", "A">>
OtpText == <<"4", "8", "2", "9", "1", "3">>
\* The text messages a user may type (none starts with "/": Filters.command).
Texts == {EmailText, WalletText, OtpText}

\* re.match(r"[^@]+@[^@]+\.[^@]+", t): anchored at the start only.
EmailMatch(t) ==
    \E i \in 1..Len(t) :
        /\ \A k \in 1..i : t[k] # "@"
        /\ i + 1 <= Len(t)
        /\ t[i + 1] = "@"
        /\ \E j \in (i + 2)..Len(t) :
               /\ \A k \in (i + 2)..j : t[k] # "@"
               /\ j + 2 <= Len(t)
               /\ t[j + 1] = "."
               /\ t[j + 2] # "@"

\* The OTP check with the isdigit() test left out.
OtpSixLong(t) == Len(t) = 6

\* otp.isdigit() and len(otp) == 6
OtpWellFormed(t) == Len(t) = 6 /\ \A k \in 1..Len(t) : t[k] \in Digits

DigitValue(c) ==
    CASE c = "0" -> 0 [] c = "1" -> 1 [] c = "2" -> 2 [] c = "3" -> 3
      [] c = "4" -> 4 [] c = "5" -> 5 [] c = "6" -> 6 [] c = "7" -> 7
      [] c = "8" -> 8 [] c = "9" -> 9

RECURSIVE DigitsValue(_)
DigitsValue(s) ==
    IF s = << >> THEN 0
    ELSE 10 * DigitsValue(SubSeq(s, 1, Len(s) - 1)) + DigitValue(s[Len(s)])

RECURSIVE StripZeros(_)
\* Trailing zeros of the fraction do not change the float.
StripZeros(s) ==
    IF s # << >> /\ s[Len(s)] = "0" THEN StripZeros(SubSeq(s, 1, Len(s) - 1)) ELSE s

AllDigits(s) == \A k \in 1..Len(s) : s[k] \in Digits

\* A float: kind "num" carries the decimal num / 10^exp; "nan" and "inf"
\* are the special values float() also accepts; "none" is a missing amount.
NoAmount == [kind |-> "none", neg |-> FALSE, num |-> 0, exp |-> 0]
ValueError == [kind |-> "ValueError", neg |-> FALSE, num |-> 0, exp |-> 0]

\* float(t) on the texts of the model: [sign] digits [. digits], digits on at
\* least one side of the point, or [sign] nan / inf.  Anything else raises.
ParseFloat(t) ==
    LET neg == t # << >> /\ t[1] = "-"
        signed == t # << >> /\ t[1] \in {"-", "+"}
        body == IF signed THEN SubSeq(t, 2, Len(t)) ELSE t
        dots == {k \in 1..Len(body) : body[k] = "."}
        point == IF dots = {} THEN Len(body) + 1 ELSE CHOOSE k \in dots : TRUE
        whole == SubSeq(body, 1, point - 1)
        frac == StripZeros(SubSeq(body, point + 1, Len(body)))
    IN  IF body = <<"n", "a", "n">>
        THEN [kind |-> "nan", neg |-> neg, num |-> 0, exp |-> 0]
        ELSE IF body = <<"i", "n", "f">>
        THEN [kind |-> "inf", neg |-> neg, num |-> 0, exp |-> 0]
        ELSE IF /\ Cardinality(dots) <= 1
                /\ AllDigits(whole)
                /\ AllDigits(SubSeq(body, point + 1, Len(body)))
                /\ Len(whole) + Len(SubSeq(body, point + 1, Len(body))) >= 1
        THEN [kind |-> "num",
              neg |-> neg /\ DigitsValue(whole \o frac) # 0,
              num |-> DigitsValue(whole \o frac),
              exp |-> Len(frac)]
        ELSE ValueError

\* amount <= 0 on a float (False for nan, as every comparison with nan).
NotPositive(a) ==
    \/ a.kind = "num" /\ (a.neg \/ a.num = 0)
    \/ a.kind = "inf" /\ a.neg

\* The try block of send_amount / withdraw_amount: float(text), then
\* `if amount <= 0: raise ValueError`.
AmountOf(t) ==
    LET a == ParseFloat(t)
    IN  IF a.kind = "ValueError" \/ NotPositive(a) THEN ValueError ELSE a

\* bool(amount): a float is falsy only when it is zero.
Truthy(a) == a.kind \in {"nan", "inf"} \/ (a.kind = "num" /\ a.num # 0)

(***************************************************************************)
(* The users table (Session Store) and the session check                   *)
(***************************************************************************)
\* token_expiry VARCHAR(50): a timestamp string with whole seconds, NULL, or
\* a string strptime cannot parse.
NullExpiry == [kind |-> "null", sec |-> 0]
GarbageExpiry == [kind |-> "garbage", sec |-> 0]
Timestamp(s) == [kind |-> "ts", sec |-> s]

\* datetime.strftime(t, "%Y-%m-%d %H:%M:%S"): the sub-second part is dropped.
strftime(t) == Timestamp(t \div TicksPerSecond)
\* datetime.strptime(e, "%Y-%m-%d %H:%M:%S") for a string that parses.
strptime(e) == e.sec * TicksPerSecond

\* A wallet id is the tuple of its "_"-separated segments.
NoWallet == << >>
WalletIds == {<<"w1", "x">>}

\* cursor.fetchone() returning None.
NoRow ==
    [chat_id |-> None, email |-> NoText, token |-> None, organization_id |-> None,
     token_expiry |-> NullExpiry, default_wallet |-> NoWallet]

\* "not user" in Python: None (a fetched dictionary is never empty).
IsRow(user) == user.chat_id # None

\* REPLACE INTO users (chat_id, email, token, organization_id, token_expiry):
\* the whole row is replaced, default_wallet becomes NULL.
SavedRow(chat_id, email, token, organization_id, token_expiry) ==
    [chat_id |-> chat_id, email |-> email, token |-> token,
     organization_id |-> organization_id, token_expiry |-> token_expiry,
     default_wallet |-> NoWallet]

\* update_default_wallet that also pushes the expiry of the row forward.
UpdatedRowExtended(row, wallet_id) ==
    IF IsRow(row)
    THEN [row EXCEPT !.default_wallet = wallet_id,
                     !.token_expiry = Timestamp(HourSeconds + 1)]
    ELSE row

\* update_default_wallet written as REPLACE INTO users (chat_id,
\* default_wallet): the other columns of the row become NULL.
UpdatedRowReplaced(row, wallet_id) ==
    IF IsRow(row)
    THEN [NoRow EXCEPT !.chat_id = row.chat_id, !.default_wallet = wallet_id]
    ELSE row

\* UPDATE users SET default_wallet = %s WHERE chat_id = %s: no row, no change.
UpdatedRow(row, wallet_id) ==
    IF IsRow(row) THEN [row EXCEPT !.default_wallet = wallet_id] ELSE row

\* refresh_token_if_needed with the expiry compared by > instead of >=.
refresh_token_late(user, t) ==
    IF user.chat_id = None \/ user.token_expiry.kind = "null"
    THEN [user |-> NoRow, reply |-> <<"please_login">>]
    ELSE IF user.token_expiry.kind = "garbage"
    THEN [user |-> NoRow, reply |-> <<"session_error_login">>]
    ELSE IF t > strptime(user.token_expiry)
    THEN [user |-> NoRow, reply |-> <<"session_expired_login">>]
    ELSE [user |-> user, reply |-> << >>]

\* refresh_token_if_needed that only looks for a row with an expiry string.
refresh_token_unchecked(user, t) ==
    IF user.chat_id = None \/ user.token_expiry.kind = "null"
    THEN [user |-> NoRow, reply |-> <<"please_login">>]
    ELSE [user |-> user, reply |-> << >>]

\* refresh_token_if_needed answering "session error" for a row without an
\* expiry string.
refresh_token_null_as_error(user, t) ==
    IF user.chat_id = None
    THEN [user |-> NoRow, reply |-> <<"please_login">>]
    ELSE IF user.token_expiry.kind # "ts"
    THEN [user |-> NoRow, reply |-> <<"session_error_login">>]
    ELSE IF t >= strptime(user.token_expiry)
    THEN [user |-> NoRow, reply |-> <<"session_expired_login">>]
    ELSE [user |-> user, reply |-> << >>]

\* refresh_token_if_needed(user, chat_id, reply_func) at clock t: the value
\* returned (the row, or NoRow for None) and the reply it sends, if any.
refresh_token_if_needed(user, t) ==
    IF ~IsRow(user)
    THEN [user |-> NoRow, reply |-> <<"please_login">>]
    ELSE IF user.token_expiry.kind = "null"
    THEN [user |-> NoRow, reply |-> <<"please_login">>]
    ELSE IF user.token_expiry.kind = "garbage"
    THEN [user |-> NoRow, reply |-> <<"session_error_login">>]
    ELSE IF t >= strptime(user.token_expiry)
    THEN [user |-> NoRow, reply |-> <<"session_expired_login">>]
    ELSE [user |-> user, reply |-> << >>]

(***************************************************************************)
(* Updates                                                                 *)
(***************************************************************************)
Commands ==
    {"start", "help", "logout", "profile", "kyc", "balance", "setdefault",
     "deposit", "history", "send", "withdraw", "login", "cancel"}

\* callback_data of the inline buttons, as the tuple of "_"-separated segments.
SendButtons ==
    {<<"send", "email">>, <<"send", "wallet">>, <<"send", "cancel">>,
     <<"send", "confirm">>}
WithdrawButtons == {<<"withdraw", "confirm">>, <<"withdraw", "cancel">>}
MenuButtons == {<<"cmd", "help">>, <<"cmd", "send">>}
DefaultButtons == {<<"default">> \o w : w \in WalletIds}
Buttons == SendButtons \cup WithdrawButtons \cup MenuButtons \cup DefaultButtons

Command(name) == [kind |-> "command", cmd |-> name, data |-> << >>]
Text(content) == [kind |-> "text", cmd |-> "", data |-> content]
ButtonPress(tag) == [kind |-> "button", cmd |-> "", data |-> tag]
NoUpdate == [kind |-> "none", cmd |-> "", data |-> << >>]

\* Conversation states (line 40); Idle stands for "no entry in the handler's
\* conversations dictionary" (ConversationHandler.END removes the entry).
Idle == "Idle"
EMAIL == "EMAIL"
OTP == "OTP"
SEND_TYPE == "SEND_TYPE"
SEND_RECIPIENT == "SEND_RECIPIENT"
SEND_AMOUNT == "SEND_AMOUNT"
SEND_CONFIRM == "SEND_CONFIRM"
WITHDRAW_AMOUNT == "WITHDRAW_AMOUNT"
WITHDRAW_CONFIRM == "WITHDRAW_CONFIRM"

VARIABLES
    now,            \* datetime.now(), in ticks
    users,          \* the users table: chat_id -> row
    send_conv,      \* send_conv.conversations
    withdraw_conv,  \* withdraw_conv.conversations
    login_conv,     \* login_conv.conversations
    user_data,      \* context.user_data of each user
    bindings,       \* deposit callbacks bound by start_pusher
    out,            \* the update handled last, its replies and remote calls
    flow            \* what the user entered since the flow's entry command

vars ==
    <<now, users, send_conv, withdraw_conv, login_conv, user_data, bindings,
      out, flow>>

NoUserData ==
    [email |-> NoText, sid |-> None, send_type |-> None, recipient |-> NoText,
     amount |-> NoAmount, withdraw_amount |-> NoAmount]

NoFlow ==
    [send_type |-> None, recipient |-> NoText, amount |-> NoText, sent |-> 0,
     withdraw_amount |-> NoText, withdrawn |-> 0]

NoOut ==
    [chat_id |-> None, update |-> NoUpdate, handler |-> "none",
     replies |-> << >>, calls |-> << >>, db_error |-> FALSE]

\* Rows an earlier run of the process (or an operator) may have left behind.
StoredRows(u) ==
    {NoRow,
     SavedRow(u, EmailText, "tok0", "org1", Timestamp(HourSeconds)),
     SavedRow(u, EmailText, "tok0", "org1", GarbageExpiry),
     SavedRow(u, EmailText, "tok0", "org1", NullExpiry)}

\* Init for the users in A; the other users never act.
InitFor(A) ==
    /\ now = 0
    /\ users \in {r \in [Users -> UNION {StoredRows(u) : u \in Users}] :
                    \A u \in Users : /\ r[u] \in StoredRows(u)
                                     /\ u \notin A => r[u] = NoRow}
    /\ send_conv = [u \in Users |-> Idle]
    /\ withdraw_conv = [u \in Users |-> Idle]
    /\ login_conv = [u \in Users |-> Idle]
    /\ user_data = [u \in Users |-> NoUserData]
    /\ bindings = [u \in Users |-> [o \in Orgs \cup {None} |-> 0]]
    /\ out = NoOut
    /\ flow = [u \in Users |-> NoFlow]

(***************************************************************************)
(* Dispatch: main() registers the handlers in one group; the dispatcher    *)
(* hands an update to the first handler whose check_update matches.        *)
(***************************************************************************)
IsCommand(upd, name) == upd.kind = "command" /\ upd.cmd = name
\* Filters.text & ~Filters.command
IsPlainText(upd) == upd.kind = "text"
\* CallbackQueryHandler(pattern="^<prefix>_")
HasPrefix(upd, prefix) ==
    upd.kind = "button" /\ Len(upd.data) >= 2 /\ upd.data[1] = prefix
\* CallbackQueryHandler(pattern="^<a>_<b>$")
IsButton(upd, tag) == upd.kind = "button" /\ upd.data = tag

\* send_conv with the Confirm button handled whatever the step, as by a
\* CallbackQueryHandler registered outside the conversation.
SendConvHandlerStale(state, upd) ==
    IF IsButton(upd, <<"send", "confirm">>) THEN "send_confirm"
    ELSE IF state = Idle
    THEN IF IsCommand(upd, "send") THEN "send" ELSE "none"
    ELSE IF state = SEND_TYPE /\ HasPrefix(upd, "send") THEN "send_type"
    ELSE IF state = SEND_RECIPIENT /\ IsPlainText(upd) THEN "send_recipient"
    ELSE IF state = SEND_AMOUNT /\ IsPlainText(upd) THEN "send_amount"
    ELSE IF state = SEND_CONFIRM /\ IsButton(upd, <<"send", "cancel">>)
    THEN "send_cancel_button"
    ELSE IF IsCommand(upd, "cancel") THEN "send_cancel"
    ELSE "none"

\* send_conv.check_update: entry points when the user has no state (no
\* allow_reentry), else the handlers of the state, else the fallbacks.
SendConvHandler(state, upd) ==
    IF state = Idle
    THEN IF IsCommand(upd, "send") THEN "send" ELSE "none"
    ELSE IF state = SEND_TYPE /\ HasPrefix(upd, "send") THEN "send_type"
    ELSE IF state = SEND_RECIPIENT /\ IsPlainText(upd) THEN "send_recipient"
    ELSE IF state = SEND_AMOUNT /\ IsPlainText(upd) THEN "send_amount"
    ELSE IF state = SEND_CONFIRM /\ IsButton(upd, <<"send", "confirm">>)
    THEN "send_confirm"
    ELSE IF state = SEND_CONFIRM /\ IsButton(upd, <<"send", "cancel">>)
    THEN "send_cancel_button"
    ELSE IF IsCommand(upd, "cancel") THEN "send_cancel"
    ELSE "none"

WithdrawConvHandler(state, upd) ==
    IF state = Idle
    THEN IF IsCommand(upd, "withdraw") THEN "withdraw" ELSE "none"
    ELSE IF state = WITHDRAW_AMOUNT /\ IsPlainText(upd) THEN "withdraw_amount"
    ELSE IF state = WITHDRAW_CONFIRM /\ IsButton(upd, <<"withdraw", "confirm">>)
    THEN "withdraw_confirm"
    ELSE IF state = WITHDRAW_CONFIRM /\ IsButton(upd, <<"withdraw", "cancel">>)
    THEN "withdraw_cancel_button"
    ELSE IF IsCommand(upd, "cancel") THEN "withdraw_cancel"
    ELSE "none"

\* login_conv with /cancel taken in every state, as by a CommandHandler
\* registered outside the conversation.
LoginConvHandlerCancelAlways(state, upd) ==
    IF IsCommand(upd, "cancel") THEN "login_cancel"
    ELSE IF state = Idle
    THEN IF IsCommand(upd, "login") THEN "login" ELSE "none"
    ELSE IF state = EMAIL /\ IsPlainText(upd) THEN "get_email"
    ELSE IF state = OTP /\ IsPlainText(upd) THEN "verify_otp"
    ELSE "none"

LoginConvHandler(state, upd) ==
    IF state = Idle
    THEN IF IsCommand(upd, "login") THEN "login" ELSE "none"
    ELSE IF state = EMAIL /\ IsPlainText(upd) THEN "get_email"
    ELSE IF state = OTP /\ IsPlainText(upd) THEN "verify_otp"
    ELSE IF IsCommand(upd, "cancel") THEN "login_cancel"
    ELSE "none"

PlainCommands ==
    {"start", "help", "logout", "profile", "kyc", "balance", "setdefault",
     "deposit", "history"}

\* The dispatcher with login_conv registered before send_conv and
\* withdraw_conv.
DispatchLoginFirst(s, w, l, upd) ==
    IF upd.kind = "command" /\ upd.cmd \in PlainCommands THEN upd.cmd
    ELSE IF HasPrefix(upd, "cmd") THEN "menu_callback"
    ELSE IF HasPrefix(upd, "default") THEN "setdefault_callback"
    ELSE IF LoginConvHandler(l, upd) # "none" THEN LoginConvHandler(l, upd)
    ELSE IF SendConvHandler(s, upd) # "none" THEN SendConvHandler(s, upd)
    ELSE WithdrawConvHandler(w, upd)

\* The handler the dispatcher runs for an update of a user whose three
\* conversations are in states s, w, l ("none": no handler takes it).
Dispatch(s, w, l, upd) ==
    IF upd.kind = "command" /\ upd.cmd \in PlainCommands THEN upd.cmd
    ELSE IF HasPrefix(upd, "cmd") THEN "menu_callback"
    ELSE IF HasPrefix(upd, "default") THEN "setdefault_callback"
    ELSE IF SendConvHandler(s, upd) # "none" THEN SendConvHandler(s, upd)
    ELSE IF WithdrawConvHandler(w, upd) # "none" THEN WithdrawConvHandler(w, upd)
    ELSE LoginConvHandler(l, upd)

\* Conversations looked up under one key for every user, instead of the
\* (chat, user) key of the update.
RouteShared(u, upd) ==
    Dispatch(send_conv["u1"], withdraw_conv["u1"], login_conv["u1"], upd)

Route(u, upd) == Dispatch(send_conv[u], withdraw_conv[u], login_conv[u], upd)

(***************************************************************************)
(* Remote API: the calls a handler makes and the responses it may get      *)
(***************************************************************************)
\* returned: the value the handler took from the response of a login request
\* (sid, accessToken, organizationId), None when it took none.
NoCall ==
    [api |-> "none", token |-> None, endpoint |-> "", email |-> NoText,
     otp |-> NoText, sid |-> None, recipient |-> NoText, amount |-> NoAmount,
     wallet_id |-> NoWallet, returned |-> None]

\* A request with "Authorization: Bearer <token of the stored row>".
TokenCall(api, endpoint, token) ==
    [NoCall EXCEPT !.api = api, !.endpoint = endpoint, !.token = token]

\* The response of one request: the status ("network": the request raised
\* a RequestException instead) and whether response.json() decodes the body.
\* get_email tells 429 and 404 from the other statuses; every other handler
\* only tells 200 from the rest, for which 500 stands.
OtpStatuses == {"200", "429", "404", "500", "network"}
Statuses == {"200", "500", "network"}
Responses(S) == {r \in [status : S, json : BOOLEAN] : r.status = "network" => ~r.json}
\* No request is made.
NoResponse == [status |-> "none", json |-> FALSE]
ResponsesIf(requested) == IF requested THEN Responses(Statuses) ELSE {NoResponse}
\* A choice the handler reaches only on some paths.
ChoiceIf(reached, S, default) == IF reached THEN S ELSE {default}

\* The replies of the handlers that fetch and show one resource.
QueryReplies(r) ==
    IF r.status = "network" THEN <<"network_error">>
    ELSE IF r.status = "200" /\ r.json THEN <<"result">>
    ELSE IF r.status = "200" THEN <<"invalid_response">>
    ELSE <<"remote_error">>

Report(u, upd, name, replies, calls, db_error) ==
    out' = [chat_id |-> u, update |-> upd, handler |-> name, replies |-> replies,
            calls |-> calls, db_error |-> db_error]

(***************************************************************************)
(* Handlers outside the conversations                                      *)
(***************************************************************************)
start(u) ==
    \E db \in BOOLEAN :
        /\ Route(u, Command("start")) = "start"
        /\ Report(u, Command("start"), "start",
                  IF ~db THEN <<"error">>
                  ELSE IF IsRow(users[u]) THEN <<"welcome_back">> ELSE <<"welcome">>,
                  << >>, ~db)
        /\ UNCHANGED <<now, users, send_conv, withdraw_conv, login_conv,
                       user_data, bindings, flow>>

help_command(u) ==
    /\ Route(u, Command("help")) = "help"
    /\ Report(u, Command("help"), "help", <<"help">>, << >>, FALSE)
    /\ UNCHANGED <<now, users, send_conv, withdraw_conv, login_conv, user_data,
                   bindings, flow>>

\* The bot posts "/<command>" into the chat itself: no handler sees it.
menu_callback(u) ==
    \E b \in MenuButtons :
        /\ Route(u, ButtonPress(b)) = "menu_callback"
        /\ Report(u, ButtonPress(b), "menu_callback", <<"command_text">>, << >>,
                  FALSE)
        /\ UNCHANGED <<now, users, send_conv, withdraw_conv, login_conv,
                       user_data, bindings, flow>>

\* logout that sends the success message before the DELETE is committed.
LogoutRepliesFirst(db) == <<"logged_out">>

\* The reply of logout: the success message follows conn.commit(); db is
\* whether connecting, the DELETE and the commit all went through.
LogoutReplies(db) == IF db THEN <<"logged_out">> ELSE <<"error">>

\* DELETE FROM users WHERE chat_id = %s: with no row nothing is deleted.
logout(u) ==
    \E db \in BOOLEAN :
        /\ Route(u, Command("logout")) = "logout"
        /\ users' = IF db THEN [users EXCEPT ![u] = NoRow] ELSE users
        /\ Report(u, Command("logout"), "logout", LogoutReplies(db), << >>, ~db)
        /\ UNCHANGED <<now, send_conv, withdraw_conv, login_conv, user_data,
                       bindings, flow>>

\* profile, kyc, balance, setdefault, history: get_user,
\* refresh_token_if_needed, one GET with the token of the row, one reply.
AuthenticatedQuery(u, name, endpoint) ==
    \E db \in BOOLEAN :
    \E r \in ResponsesIf(db /\ IsRow(refresh_token_if_needed(users[u], now).user)) :
        LET checked == refresh_token_if_needed(users[u], now)
        IN  /\ Route(u, Command(name)) = name
            /\ Report(u, Command(name), name,
                      IF ~db THEN <<"error">>
                      ELSE IF ~IsRow(checked.user) THEN checked.reply
                      ELSE QueryReplies(r),
                      IF db /\ IsRow(checked.user)
                      THEN <<TokenCall(name, endpoint, checked.user.token)>>
                      ELSE << >>,
                      ~db)
            /\ UNCHANGED <<now, users, send_conv, withdraw_conv, login_conv,
                           user_data, bindings, flow>>

profile(u) == AuthenticatedQuery(u, "profile", "/auth/me")

kyc(u) == AuthenticatedQuery(u, "kyc", "/kycs")

balance(u) == AuthenticatedQuery(u, "balance", "/wallets/balances")

setdefault(u) == AuthenticatedQuery(u, "setdefault", "/wallets")

history(u) == AuthenticatedQuery(u, "history", "/transfers")

deposit(u) ==
    \E db \in BOOLEAN :
        LET checked == refresh_token_if_needed(users[u], now)
        IN  /\ Route(u, Command("deposit")) = "deposit"
            /\ Report(u, Command("deposit"), "deposit",
                      IF ~db THEN <<"error">>
                      ELSE IF ~IsRow(checked.user) THEN checked.reply
                      ELSE <<"deposit_instructions">>,
                      << >>, ~db)
            /\ UNCHANGED <<now, users, send_conv, withdraw_conv, login_conv,
                           user_data, bindings, flow>>

\* wallet_id = query.data.split("_")[1]; the row is updated before the
\* remote call is made.
setdefault_callback(u) ==
    \E b \in DefaultButtons, db \in BOOLEAN :
    \E db_write \in ChoiceIf(db /\ IsRow(refresh_token_if_needed(users[u], now).user),
                             BOOLEAN, FALSE) :
    \E r \in ResponsesIf(db_write) :
        LET checked == refresh_token_if_needed(users[u], now)
            wallet_id == <<b[2]>>
            valid == db /\ IsRow(checked.user)
            call == [TokenCall("setDefaultWallet", "/wallets/default",
                               checked.user.token) EXCEPT !.wallet_id = wallet_id]
        IN  /\ Route(u, ButtonPress(b)) = "setdefault_callback"
            /\ users' = IF valid /\ db_write
                        THEN [users EXCEPT ![u] = UpdatedRow(users[u], wallet_id)]
                        ELSE users
            /\ Report(u, ButtonPress(b), "setdefault_callback",
                      IF ~db THEN <<"error">>
                      ELSE IF ~valid THEN checked.reply
                      ELSE IF ~db_write THEN <<"error">>
                      ELSE IF r.status = "network" THEN <<"network_error">>
                      ELSE IF r.status = "200" THEN <<"default_wallet_set">>
                      ELSE <<"remote_error">>,
                      IF valid /\ db_write THEN <<call>> ELSE << >>,
                      ~db \/ (valid /\ ~db_write))
            /\ UNCHANGED <<now, send_conv, withdraw_conv, login_conv, user_data,
                           bindings, flow>>

(***************************************************************************)
(* Send flow                                                               *)
(***************************************************************************)
send(u) ==
    \E db \in BOOLEAN :
        LET checked == refresh_token_if_needed(users[u], now)
            valid == db /\ IsRow(checked.user)
        IN  /\ Route(u, Command("send")) = "send"
            /\ send_conv' = [send_conv EXCEPT ![u] = IF valid THEN SEND_TYPE ELSE Idle]
            /\ flow' = [flow EXCEPT ![u].send_type = None, ![u].recipient = NoText,
                                    ![u].amount = NoText, ![u].sent = 0]
            /\ Report(u, Command("send"), "send",
                      IF ~db THEN <<"error">>
                      ELSE IF ~valid THEN checked.reply
                      ELSE <<"choose_recipient_type">>,
                      << >>, ~db)
            /\ UNCHANGED <<now, users, withdraw_conv, login_conv, user_data, bindings>>

\* context.user_data["send_type"] = query.data.split("_")[1]
send_type(u) ==
    \E b \in SendButtons :
        /\ Route(u, ButtonPress(b)) = "send_type"
        /\ user_data' = [user_data EXCEPT ![u].send_type = b[2]]
        /\ send_conv' = [send_conv EXCEPT ![u] = SEND_RECIPIENT]
        /\ flow' = [flow EXCEPT ![u].send_type = b[2]]
        /\ Report(u, ButtonPress(b), "send_type", <<"enter_recipient">>, << >>, FALSE)
        /\ UNCHANGED <<now, users, withdraw_conv, login_conv, bindings>>

\* send_recipient without the email check.
RecipientNeverRejected(kind, t) == FALSE

\* send_type == "email" and not re.match(<email pattern>, recipient)
RecipientRejected(kind, t) == kind = "email" /\ ~EmailMatch(t)

send_recipient_text(u, t) ==
        LET kind == user_data[u].send_type
            rejected == RecipientRejected(kind, t)
        IN  /\ Route(u, Text(t)) = "send_recipient"
            /\ user_data' =
                   IF kind = None \/ rejected THEN user_data
                   ELSE [user_data EXCEPT ![u].recipient = t]
            /\ send_conv' =
                   [send_conv EXCEPT ![u] =
                        IF kind = None THEN Idle
                        ELSE IF rejected THEN SEND_RECIPIENT
                        ELSE SEND_AMOUNT]
            /\ flow' = IF kind = None \/ rejected THEN flow ELSE [flow EXCEPT ![u].recipient = t]
            /\ Report(u, Text(t), "send_recipient",
                      IF kind = None THEN <<"session_error">>
                      ELSE IF rejected THEN <<"invalid_email">>
                      ELSE <<"enter_amount">>,
                      << >>, FALSE)
            /\ UNCHANGED <<now, users, withdraw_conv, login_conv, bindings>>

send_recipient(u) == \E t \in Texts : send_recipient_text(u, t)

send_amount_text(u, t) ==
        LET amount == AmountOf(t)
            rejected == amount = ValueError
            recipient == user_data[u].recipient
        IN  /\ Route(u, Text(t)) = "send_amount"
            /\ user_data' =
                   IF rejected THEN user_data
                   ELSE [user_data EXCEPT ![u].amount = amount]
            /\ send_conv' =
                   [send_conv EXCEPT ![u] =
                        IF rejected THEN SEND_AMOUNT
                        ELSE IF recipient = NoText THEN Idle
                        ELSE SEND_CONFIRM]
            /\ flow' = IF rejected THEN flow ELSE [flow EXCEPT ![u].amount = t]
            /\ Report(u, Text(t), "send_amount",
                      IF rejected THEN <<"invalid_amount">>
                      ELSE IF recipient = NoText THEN <<"session_error">>
                      ELSE <<"confirm_send">>,
                      << >>, FALSE)
            /\ UNCHANGED <<now, users, withdraw_conv, login_conv, bindings>>

send_amount(u) == \E t \in Texts : send_amount_text(u, t)

\* send_confirm posting with the fixed API token instead of the user's.
SendFundsCallApiToken(token, kind, recipient, amount) ==
    [NoCall EXCEPT !.api = "sendFunds",
                   !.endpoint = IF kind = "email" THEN "/transfers/send"
                                ELSE "/transfers/wallet-withdraw",
                   !.token = "COPPERX_API_TOKEN",
                   !.recipient = recipient, !.amount = amount]

\* The request send_confirm posts: the endpoint and the body are chosen by
\* send_type == "email", every other value takes the wallet branch.
SendFundsCall(token, kind, recipient, amount) ==
    [TokenCall("sendFunds",
               IF kind = "email" THEN "/transfers/send"
               ELSE "/transfers/wallet-withdraw",
               token)
        EXCEPT !.recipient = recipient, !.amount = amount]

send_confirm(u) ==
    \E db \in BOOLEAN :
    \E r \in ResponsesIf(db /\ IsRow(refresh_token_if_needed(users[u], now).user)) :
        LET checked == refresh_token_if_needed(users[u], now)
            valid == db /\ IsRow(checked.user)
            kind == user_data[u].send_type
            recipient == user_data[u].recipient
            amount == user_data[u].amount
            complete == kind # None /\ recipient # NoText /\ Truthy(amount)
            called == valid /\ complete
        IN  /\ Route(u, ButtonPress(<<"send", "confirm">>)) = "send_confirm"
            /\ send_conv' = [send_conv EXCEPT ![u] = Idle]
            /\ flow' = [flow EXCEPT ![u].sent = IF called THEN @ + 1 ELSE @]
            /\ Report(u, ButtonPress(<<"send", "confirm">>), "send_confirm",
                      IF ~db THEN <<"error">>
                      ELSE IF ~valid THEN checked.reply
                      ELSE IF ~complete THEN <<"session_error">>
                      ELSE IF r.status = "network" THEN <<"network_error">>
                      ELSE IF r.status = "200" THEN <<"transfer_successful">>
                      ELSE <<"transfer_failed">>,
                      IF called
                      THEN <<SendFundsCall(checked.user.token, kind, recipient, amount)>>
                      ELSE << >>,
                      ~db)
            /\ UNCHANGED <<now, users, withdraw_conv, login_conv, user_data, bindings>>

(***************************************************************************)
(* Withdraw flow                                                           *)
(***************************************************************************)
withdraw(u) ==
    \E db \in BOOLEAN :
        LET checked == refresh_token_if_needed(users[u], now)
            valid == db /\ IsRow(checked.user)
        IN  /\ Route(u, Command("withdraw")) = "withdraw"
            /\ withdraw_conv' =
                   [withdraw_conv EXCEPT ![u] = IF valid THEN WITHDRAW_AMOUNT ELSE Idle]
            /\ flow' = [flow EXCEPT ![u].withdraw_amount = NoText, ![u].withdrawn = 0]
            /\ Report(u, Command("withdraw"), "withdraw",
                      IF ~db THEN <<"error">>
                      ELSE IF ~valid THEN checked.reply
                      ELSE <<"enter_withdraw_amount">>,
                      << >>, ~db)
            /\ UNCHANGED <<now, users, send_conv, login_conv, user_data, bindings>>

withdraw_amount_text(u, t) ==
        LET amount == AmountOf(t)
            rejected == amount = ValueError
        IN  /\ Route(u, Text(t)) = "withdraw_amount"
            /\ user_data' =
                   IF rejected THEN user_data
                   ELSE [user_data EXCEPT ![u].withdraw_amount = amount]
            /\ withdraw_conv' =
                   [withdraw_conv EXCEPT ![u] =
                        IF rejected THEN WITHDRAW_AMOUNT ELSE WITHDRAW_CONFIRM]
            /\ flow' = IF rejected THEN flow ELSE [flow EXCEPT ![u].withdraw_amount = t]
            /\ Report(u, Text(t), "withdraw_amount",
                      IF rejected THEN <<"invalid_amount">> ELSE <<"confirm_withdraw">>,
                      << >>, FALSE)
            /\ UNCHANGED <<now, users, send_conv, login_conv, bindings>>

withdraw_amount(u) == \E t \in Texts : withdraw_amount_text(u, t)

WithdrawalCall(token, amount) ==
    [TokenCall("requestWithdrawal", "/transfers/offramp", token)
        EXCEPT !.amount = amount]

withdraw_confirm(u) ==
    \E db \in BOOLEAN :
    \E r \in ResponsesIf(db /\ IsRow(refresh_token_if_needed(users[u], now).user)) :
        LET checked == refresh_token_if_needed(users[u], now)
            valid == db /\ IsRow(checked.user)
            amount == user_data[u].withdraw_amount
            called == valid /\ Truthy(amount)
        IN  /\ Route(u, ButtonPress(<<"withdraw", "confirm">>)) = "withdraw_confirm"
            /\ withdraw_conv' = [withdraw_conv EXCEPT ![u] = Idle]
            /\ flow' = [flow EXCEPT ![u].withdrawn = IF called THEN @ + 1 ELSE @]
            /\ Report(u, ButtonPress(<<"withdraw", "confirm">>), "withdraw_confirm",
                      IF ~db THEN <<"error">>
                      ELSE IF ~valid THEN checked.reply
                      ELSE IF ~Truthy(amount) THEN <<"session_error">>
                      ELSE IF r.status = "network" THEN <<"network_error">>
                      ELSE IF r.status = "200" THEN <<"withdrawal_requested">>
                      ELSE <<"withdrawal_failed">>,
                      IF called THEN <<WithdrawalCall(checked.user.token, amount)>>
                      ELSE << >>,
                      ~db)
            /\ UNCHANGED <<now, users, send_conv, login_conv, user_data, bindings>>

(***************************************************************************)
(* cancel: the fallback of the three conversations and the handler of the  *)
(* Cancel buttons of the confirmation steps                                *)
(***************************************************************************)
\* /cancel reaches the first conversation, in registration order, in which
\* the user has a state; only that conversation ends.
cancel(u) ==
    LET name == Route(u, Command("cancel"))
    IN  /\ name \in {"send_cancel", "withdraw_cancel", "login_cancel"}
        /\ send_conv' = IF name = "send_cancel"
                        THEN [send_conv EXCEPT ![u] = Idle] ELSE send_conv
        /\ withdraw_conv' = IF name = "withdraw_cancel"
                            THEN [withdraw_conv EXCEPT ![u] = Idle] ELSE withdraw_conv
        /\ login_conv' = IF name = "login_cancel"
                         THEN [login_conv EXCEPT ![u] = Idle] ELSE login_conv
        /\ Report(u, Command("cancel"), name, <<"operation_cancelled">>, << >>, FALSE)
        /\ UNCHANGED <<now, users, user_data, bindings, flow>>

\* cancel run for a callback query: update.message is None, so reply_text
\* raises AttributeError in the try block and again in the except block.  The
\* exception leaves the handler, the conversation keeps its state and the
\* dispatcher runs error_handler, which replies.
cancel_callback_query(u) ==
    \E b \in {<<"send", "cancel">>, <<"withdraw", "cancel">>} :
        /\ Route(u, ButtonPress(b)) \in {"send_cancel_button", "withdraw_cancel_button"}
        /\ Report(u, ButtonPress(b), Route(u, ButtonPress(b)), <<"error_handler">>,
                  << >>, FALSE)
        /\ UNCHANGED <<now, users, send_conv, withdraw_conv, login_conv, user_data,
                       bindings, flow>>

(***************************************************************************)
(* Login flow                                                              *)
(***************************************************************************)
\* COPPERX_API_TOKEN, the fixed token of the two OTP requests.
ApiToken == "COPPERX_API_TOKEN"

login(u) ==
    /\ Route(u, Command("login")) = "login"
    /\ login_conv' = [login_conv EXCEPT ![u] = EMAIL]
    /\ Report(u, Command("login"), "login", <<"enter_email">>, << >>, FALSE)
    /\ UNCHANGED <<now, users, send_conv, withdraw_conv, user_data, bindings, flow>>

RequestOtpCall(email) ==
    [TokenCall("requestOtp", "/auth/email-otp/request", ApiToken)
        EXCEPT !.email = email]

\* The state get_email returns when every answered request moves on to OTP.
GetEmailReturnOtp(rejected, accepted) ==
    IF rejected THEN EMAIL ELSE OTP

\* The state get_email returns: EMAIL after a text that is no email, OTP after
\* a 200 response carrying a sid, ConversationHandler.END otherwise.
GetEmailReturn(rejected, accepted) ==
    IF rejected THEN EMAIL ELSE IF accepted THEN OTP ELSE Idle

\* The email is stored before the request is made; the sid only when the
\* response is a 200 that carries one.
get_email_text(u, t) ==
    \E r \in IF EmailMatch(t) THEN Responses(OtpStatuses) ELSE {NoResponse} :
    \E sid \in ChoiceIf(r.status = "200" /\ r.json, Sids \cup {None}, None) :
        LET rejected == ~EmailMatch(t)
            accepted == ~rejected /\ r.status = "200" /\ r.json /\ sid # None
        IN  /\ Route(u, Text(t)) = "get_email"
            /\ user_data' =
                   IF rejected THEN user_data
                   ELSE IF accepted
                   THEN [user_data EXCEPT ![u].email = t, ![u].sid = sid]
                   ELSE [user_data EXCEPT ![u].email = t]
            /\ login_conv' =
                   [login_conv EXCEPT ![u] = GetEmailReturn(rejected, accepted)]
            /\ Report(u, Text(t), "get_email",
                      IF rejected THEN <<"invalid_email">>
                      ELSE IF r.status = "network" THEN <<"network_error">>
                      ELSE IF r.status = "429" THEN <<"rate_limited">>
                      ELSE IF r.status = "404" THEN <<"email_not_found">>
                      ELSE IF ~r.json THEN <<"error">>
                      ELSE IF r.status # "200" THEN <<"error_sending_otp">>
                      ELSE IF sid = None THEN <<"no_session_id">>
                      ELSE <<"otp_sent">>,
                      IF rejected THEN << >>
                      ELSE <<[RequestOtpCall(t) EXCEPT !.returned = sid]>>,
                      FALSE)
            /\ UNCHANGED <<now, users, send_conv, withdraw_conv, bindings, flow>>

get_email(u) == \E t \in Texts : get_email_text(u, t)

VerifyOtpCall(email, otp, sid) ==
    [TokenCall("verifyOtp", "/auth/email-otp/authenticate", ApiToken)
        EXCEPT !.email = email, !.otp = otp, !.sid = sid]

\* What start_pusher may do: warn that credentials are missing, fail while
\* subscribing (and say so), or bind one more deposit callback for the chat.
PusherOutcomes == {"no_credentials", "error", "bound"}

PusherReplies(p) ==
    IF p = "no_credentials" THEN <<"notifications_disabled">>
    ELSE IF p = "error" THEN <<"notifications_error">>
    ELSE << >>

\* The expiry of a login written as the login time itself.
NewExpiryNow(t) == strftime(t)

\* token_expiry = (datetime.now() + timedelta(hours=1)).strftime(...)
NewExpiry(t) == strftime(t + HourSeconds * TicksPerSecond)

\* The replies of verify_otp with the success message sent before the row
\* is written.
VerifyOtpRepliesSuccessFirst(rejected, incomplete, r, me, db, p) ==
    IF rejected THEN <<"invalid_otp_format">>
    ELSE IF incomplete THEN <<"session_error">>
    ELSE IF r.status = "network" THEN <<"network_error">>
    ELSE IF ~r.json THEN <<"error">>
    ELSE IF r.status # "200" THEN <<"invalid_otp">>
    ELSE IF me.status = "network" THEN <<"network_error">>
    ELSE IF ~me.json THEN <<"error">>
    ELSE IF ~db THEN <<"login_successful", "error">>
    ELSE <<"login_successful">> \o PusherReplies(p)

\* The state verify_otp returns when every failed verification ends the
\* conversation.
VerifyOtpReturnEnd(rejected, wrong_otp) ==
    IF rejected THEN OTP ELSE Idle

\* The state verify_otp returns when nothing but a completed login ends the
\* conversation.
VerifyOtpReturnStay(rejected, wrong_otp) ==
    OTP

\* The replies of verify_otp, in the order they are sent: r is the response
\* of the authenticate request, me that of /auth/me, db whether save_user
\* returned, p what start_pusher did.
VerifyOtpReplies(rejected, incomplete, r, me, db, p) ==
    IF rejected THEN <<"invalid_otp_format">>
    ELSE IF incomplete THEN <<"session_error">>
    ELSE IF r.status = "network" THEN <<"network_error">>
    ELSE IF ~r.json THEN <<"error">>
    ELSE IF r.status # "200" THEN <<"invalid_otp">>
    ELSE IF me.status = "network" THEN <<"network_error">>
    ELSE IF ~me.json THEN <<"error">>
    ELSE IF ~db THEN <<"error">>
    ELSE <<"login_successful">> \o PusherReplies(p)

\* The state verify_otp returns: OTP after an ill-formed text and after an
\* error response whose body decodes, ConversationHandler.END otherwise.
VerifyOtpReturn(rejected, wrong_otp) ==
    IF rejected \/ wrong_otp THEN OTP ELSE Idle

verify_otp_text(u, t) ==
    \E r \in ResponsesIf(OtpWellFormed(t)) :
    \E token \in ChoiceIf(r.status = "200" /\ r.json, Tokens \cup {None}, None) :
    \E me \in ResponsesIf(r.status = "200" /\ r.json) :
    \E org \in ChoiceIf(me.status \notin {"none", "network"} /\ me.json,
                        Orgs \cup {None}, None) :
    \E db \in ChoiceIf(me.status \notin {"none", "network"} /\ me.json, BOOLEAN, FALSE) :
    \E p \in ChoiceIf(db, PusherOutcomes, "error") :
        LET email == user_data[u].email
            sid == user_data[u].sid
            rejected == ~OtpWellFormed(t)
            incomplete == email = NoText \/ sid = None
            asked == ~rejected /\ ~incomplete
            verified == asked /\ r.status = "200" /\ r.json
            profiled == verified /\ me.status # "network" /\ me.json
            saved == profiled /\ db
            wrong_otp == asked /\ r.status \notin {"200", "network"} /\ r.json
        IN  /\ Route(u, Text(t)) = "verify_otp"
            /\ saved /\ p = "bound" => bindings[u][org] < MaxBindings
            /\ login_conv' =
                   [login_conv EXCEPT ![u] = VerifyOtpReturn(rejected, wrong_otp)]
            /\ users' =
                   IF saved
                   THEN [users EXCEPT ![u] = SavedRow(u, email, token, org, NewExpiry(now))]
                   ELSE users
            /\ bindings' =
                   IF saved /\ p = "bound"
                   THEN [bindings EXCEPT ![u][org] = @ + 1]
                   ELSE bindings
            /\ Report(u, Text(t), "verify_otp",
                      VerifyOtpReplies(rejected, incomplete, r, me, db, p),
                      IF ~asked THEN << >>
                      ELSE IF ~verified THEN <<VerifyOtpCall(email, t, sid)>>
                      ELSE <<[VerifyOtpCall(email, t, sid) EXCEPT !.returned = token],
                             [TokenCall("fetchProfile", "/auth/me", token)
                                 EXCEPT !.returned = org]>>,
                      profiled /\ ~db)
            /\ UNCHANGED <<now, send_conv, withdraw_conv, user_data, flow>>

verify_otp(u) == \E t \in Texts : verify_otp_text(u, t)

(***************************************************************************)
(* The clock, updates no handler takes, and the specification              *)
(***************************************************************************)
Tick ==
    /\ now < MaxNow
    /\ now' = now + 1
    /\ out' = NoOut
    /\ UNCHANGED <<users, send_conv, withdraw_conv, login_conv, user_data,
                   bindings, flow>>

(***************************************************************************)
(* Deposit events                                                          *)
(***************************************************************************)
\* A deposit event on the channel private-org-<o>.
DepositUpdate(o) == [kind |-> "event", cmd |-> "deposit", data |-> <<o>>]

\* A bridge that keeps one subscription per channel: a later subscribe
\* replaces the callback of an earlier one.
OneSubscriber(o) ==
    IF \E u \in Users : bindings[u][o] > 0
    THEN {CHOOSE u \in Users : bindings[u][o] > 0}
    ELSE {}

\* The chats with a callback bound to "deposit" on the channel of o: every
\* start_pusher makes a client, a subscription and a callback of its own,
\* with its chat_id in the closure.
Subscribers(o) == {u \in Users : bindings[u][o] > 0}

\* The chats in S, each as often as it has callbacks bound on the channel.
RECURSIVE Notified(_, _)
Notified(S, o) ==
    IF S = {} THEN << >>
    ELSE LET u == CHOOSE x \in S : TRUE
         IN  [i \in 1..bindings[u][o] |-> u] \o Notified(S \ {u}, o)

\* The event reaches every client subscribed to the channel, and each runs
\* its callbacks: context.bot.send_message(chat_id, "New Deposit Received").
\* The replies of this step are the chats the message is sent to.
DepositEvent(o) ==
    /\ Subscribers(o) # {}
    /\ out' = [chat_id |-> None, update |-> DepositUpdate(o),
               handler |-> "deposit_event",
               replies |-> Notified(Subscribers(o), o), calls |-> << >>,
               db_error |-> FALSE]
    /\ UNCHANGED <<now, users, send_conv, withdraw_conv, login_conv, user_data,
                   bindings, flow>>

Updates ==
    {Command(c) : c \in Commands} \cup {Text(t) : t \in Texts}
        \cup {ButtonPress(b) : b \in Buttons}

\* No registered handler matches: the dispatcher drops the update.
Unhandled(u) ==
    \E upd \in Updates :
        /\ Route(u, upd) = "none"
        /\ Report(u, upd, "none", << >>, << >>, FALSE)
        /\ UNCHANGED <<now, users, send_conv, withdraw_conv, login_conv,
                       user_data, bindings, flow>>

Queries(u) ==
    \/ start(u)
    \/ help_command(u)
    \/ menu_callback(u)
    \/ profile(u)
    \/ kyc(u)
    \/ balance(u)
    \/ setdefault(u)
    \/ setdefault_callback(u)
    \/ deposit(u)
    \/ history(u)

SendFlow(u) ==
    \/ send(u)
    \/ send_type(u)
    \/ send_recipient(u)
    \/ send_amount(u)
    \/ send_confirm(u)

WithdrawFlow(u) ==
    \/ withdraw(u)
    \/ withdraw_amount(u)
    \/ withdraw_confirm(u)

LoginFlow(u) ==
    \/ login(u)
    \/ get_email(u)
    \/ verify_otp(u)

Cancel(u) ==
    \/ cancel(u)
    \/ cancel_callback_query(u)

\* One user acting: the conversations, user_data and the row of a user are
\* keyed by that user alone.
Actors == {"u1"}

Init == InitFor(Actors)

\* Every handler main() registers.
Next ==
    \/ Tick
    \/ \E o \in Orgs \cup {None} : DepositEvent(o)
    \/ \E u \in Actors :
           \/ Queries(u)
           \/ logout(u)
           \/ SendFlow(u)
           \/ WithdrawFlow(u)
           \/ LoginFlow(u)
           \/ Cancel(u)
           \/ Unhandled(u)

Spec == Init /\ [][Next]_vars

\* The handlers that read the stored session (all of them but the steps
\* inside the Send and Withdraw flows), with the clock and logout.
SessionNext ==
    \/ Tick
    \/ \E u \in Actors :
           \/ Queries(u)
           \/ logout(u)
           \/ send(u)
           \/ withdraw(u)
           \/ LoginFlow(u)
           \/ cancel(u)
           \/ Unhandled(u)

SessionSpec == Init /\ [][SessionNext]_vars

\* The Send and Withdraw conversations with the clock and logout.  The
\* handlers left out write neither a conversation nor user_data.
TransferNext ==
    \/ Tick
    \/ \E u \in Actors :
           \/ logout(u)
           \/ SendFlow(u)
           \/ WithdrawFlow(u)
           \/ Cancel(u)
           \/ Unhandled(u)

TransferSpec == Init /\ [][TransferNext]_vars

\* The steps of the three conversations together, up to the point where the
\* login flow waits for the OTP, at one instant of the clock and for users
\* whose stored session is valid at that instant.
ConversationInit ==
    /\ InitFor(Actors)
    /\ \A u \in Actors : IsRow(refresh_token_if_needed(users[u], now).user)

ConversationNext ==
    \E u \in Actors :
        \/ SendFlow(u)
        \/ WithdrawFlow(u)
        \/ login(u)
        \/ get_email(u)
        \/ Cancel(u)
        \/ Unhandled(u)

ConversationSpec == ConversationInit /\ [][ConversationNext]_vars

(***************************************************************************)
(* Properties                                                              *)
(***************************************************************************)
\* The stored session of u as the specification words it: a record exists,
\* its expiry parses, and the expiry lies after the current time.
SessionMissing(u) == users[u].chat_id = None
SessionMalformed(u) == ~SessionMissing(u) /\ users[u].token_expiry.kind # "ts"
SessionExpired(u) ==
    /\ ~SessionMissing(u)
    /\ users[u].token_expiry.kind = "ts"
    /\ now >= users[u].token_expiry.sec * TicksPerSecond
SessionValid(u) == ~SessionMissing(u) /\ ~SessionMalformed(u) /\ ~SessionExpired(u)

LoginPrompts == {"please_login", "session_error_login", "session_expired_login"}
Prompted == \E i \in 1..Len(out.replies) : out.replies[i] \in LoginPrompts

AuthenticatedHandlers ==
    {"profile", "kyc", "balance", "setdefault", "setdefault_callback", "deposit",
     "history", "send", "withdraw"}

\* C1: when an authenticated operation (/profile, /kyc, /balance, /setdefault,
\* a wallet-selection button, /deposit, /history, /send, /withdraw) has read a
\* stored session that is missing, expired or has an unparsable expiry, it
\* replies with a login prompt, makes no remote call, and /send and
\* /withdraw leave their conversation Idle.
C1_InvalidSessionRefused ==
    (/\ out.handler \in AuthenticatedHandlers
     /\ ~out.db_error
     /\ ~SessionValid(out.chat_id))
    => /\ Prompted
       /\ out.calls = << >>
       /\ out.handler = "send" => send_conv[out.chat_id] = Idle
       /\ out.handler = "withdraw" => withdraw_conv[out.chat_id] = Idle

\* C1 witness: /balance was run on a session whose expiry has passed.
C1_ExpiredBalanceRefused ==
    /\ out.handler = "balance"
    /\ ~out.db_error
    /\ SessionExpired(out.chat_id)
    /\ out.replies = <<"session_expired_login">>
    /\ out.calls = << >>

\* C2: when Confirm is pressed in the Send or Withdraw flow and the stored
\* session is by then expired, deleted or malformed, sendFunds /
\* requestWithdrawal is not called, a login prompt is sent and the flow is
\* Idle.
C2_ConfirmRevalidates ==
    (/\ out.handler \in {"send_confirm", "withdraw_confirm"}
     /\ ~out.db_error
     /\ ~SessionValid(out.chat_id))
    => /\ out.calls = << >>
       /\ Prompted
       /\ out.handler = "send_confirm" => send_conv[out.chat_id] = Idle
       /\ out.handler = "withdraw_confirm" => withdraw_conv[out.chat_id] = Idle

\* C2 witness: the Send flow reached its confirmation (so the session was
\* valid at /send), the session expired, and Confirm was pressed.
C2_ExpiredAtConfirm ==
    /\ out.handler = "send_confirm"
    /\ SessionExpired(out.chat_id)
    /\ out.replies = <<"session_expired_login">>
    /\ send_conv[out.chat_id] = Idle

\* The endpoint the chosen recipient kind stands for.
EndpointOf(kind) ==
    IF kind = "email" THEN "/transfers/send" ELSE "/transfers/wallet-withdraw"

\* C3: Confirm with a valid session calls sendFunds exactly once, with the
\* token of the stored row and the kind, recipient and amount entered since
\* /send, and leaves the flow Idle whatever the response; no flow makes a
\* second call.  The same for Withdraw and requestWithdrawal.
C3_OneCallWithFlowInputs ==
    /\ \A u \in Users : flow[u].sent <= 1 /\ flow[u].withdrawn <= 1
    /\ (out.handler = "send_confirm" /\ ~out.db_error /\ SessionValid(out.chat_id))
       => /\ Len(out.calls) = 1
          /\ out.calls[1].api = "sendFunds"
          /\ out.calls[1].token = users[out.chat_id].token
          /\ flow[out.chat_id].send_type \in {"email", "wallet"}
             => out.calls[1].endpoint = EndpointOf(flow[out.chat_id].send_type)
          /\ out.calls[1].recipient = flow[out.chat_id].recipient
          /\ out.calls[1].amount = ParseFloat(flow[out.chat_id].amount)
          /\ flow[out.chat_id].sent = 1
          /\ send_conv[out.chat_id] = Idle
    /\ (out.handler = "withdraw_confirm" /\ ~out.db_error /\ SessionValid(out.chat_id))
       => /\ Len(out.calls) = 1
          /\ out.calls[1].api = "requestWithdrawal"
          /\ out.calls[1].token = users[out.chat_id].token
          /\ out.calls[1].amount = ParseFloat(flow[out.chat_id].withdraw_amount)
          /\ flow[out.chat_id].withdrawn = 1
          /\ withdraw_conv[out.chat_id] = Idle

\* C3 witness: /send, Wallet, a wallet address, an amount, Confirm, and the
\* transfer failed remotely.
C3_WalletTransferFailed ==
    /\ out.handler = "send_confirm"
    /\ flow[out.chat_id].send_type = "wallet"
    /\ flow[out.chat_id].recipient = WalletText
    /\ out.replies = <<"transfer_failed">>
    /\ Len(out.calls) = 1
    /\ send_conv[out.chat_id] = Idle

Flows == {"send", "withdraw", "login"}
StepOf(f, u) ==
    IF f = "send" THEN send_conv[u]
    ELSE IF f = "withdraw" THEN withdraw_conv[u]
    ELSE login_conv[u]
AllIdle(u) == \A f \in Flows : StepOf(f, u) = Idle

\* C4: the entry command of a flow discards any other flow of the user that
\* is in a non-Idle step, hence in every reachable state at most one flow of a
\* user is non-Idle.
C4_AtMostOneFlow ==
    \A u \in Users : Cardinality({f \in Flows : StepOf(f, u) # Idle}) <= 1

\* C5: pressing the Cancel button shown with Email and Wallet at the
\* recipient-kind step returns the Send flow to Idle; it does not advance to
\* the recipient step.
C5_CancelAtRecipientKind ==
    (/\ out.update = ButtonPress(<<"send", "cancel">>)
     /\ out.handler = "send_type")
    => send_conv[out.chat_id] = Idle

\* C6: pressing a Cancel button shown at the confirmation step of Send, at
\* the amount step of Withdraw or at the confirmation step of Withdraw ends
\* that flow: the conversation is Idle afterwards.
C6_CancelButtonEndsFlow ==
    /\ (/\ out.update = ButtonPress(<<"send", "cancel">>)
        /\ out.handler # "send_type")
       => send_conv[out.chat_id] = Idle
    /\ out.update = ButtonPress(<<"withdraw", "cancel">>)
       => withdraw_conv[out.chat_id] = Idle

\* C7: after /cancel the user is Idle in every flow, also when more than one
\* flow had been entered before it.
C7_CancelLeavesAllIdle ==
    out.update = Command("cancel") => AllIdle(out.chat_id)

\* C8: whenever the Send flow is past the recipient-kind step, and at every
\* call of sendFunds, the stored recipient kind is email or wallet.
C8_KindIsEmailOrWallet ==
    /\ \A u \in Users :
           send_conv[u] \in {SEND_RECIPIENT, SEND_AMOUNT, SEND_CONFIRM}
           => user_data[u].send_type \in {"email", "wallet"}
    /\ (out.handler = "send_confirm" /\ out.calls # << >>)
       => user_data[out.chat_id].send_type \in {"email", "wallet"}

\* C9: whenever all flows of a user are Idle, no Flow State of that user
\* exists (no login email or sid, no send kind, recipient or amount, no
\* withdraw amount).
C9_IdleHasNoFlowState ==
    \A u \in Users : AllIdle(u) => user_data[u] = NoUserData

\* C10: /send issued while the user's Send flow is in a non-Idle step, with a
\* valid session, puts the conversation at the recipient-kind step again and
\* resets the kind, recipient and amount entered before.
C10_ResendRestarts ==
    [][\A u \in Users :
           (/\ send_conv[u] # Idle
            /\ SessionValid(u)
            /\ out'.chat_id = u
            /\ out'.update = Command("send")
            /\ ~out'.db_error)
           => /\ send_conv'[u] = SEND_TYPE
              /\ user_data'[u].send_type = None
              /\ user_data'[u].recipient = NoText
              /\ user_data'[u].amount = NoAmount]_vars

\* A login in which requestOtp gave a sid, verifyOtp gave a token, fetchProfile
\* gave an organization and the row was written.
LoginCompleted ==
    /\ out.handler = "verify_otp"
    /\ Len(out.calls) = 2
    /\ out.calls[1].returned # None
    /\ out.calls[2].returned # None
    /\ ~out.db_error

\* One hour after the current time, in ticks.
HourFromNow == now + HourSeconds * TicksPerSecond

\* C11 (amended): after a login in which requestOtp, verifyOtp and
\* fetchProfile succeed, the row of the user holds the email entered in this
\* flow, the token verifyOtp returned, the organization fetchProfile returned
\* and an expiry equal to the login time plus one hour with the fraction of
\* the second dropped (less than a second before login time plus one hour);
\* an expiry the row held before is not later than the new one; the login
\* flow is Idle.
C11_LoginStoresSession ==
    [][LoginCompleted' =>
        LET u == out'.chat_id
            row == users'[u]
        IN  /\ row.chat_id = u
            /\ row.email = user_data[u].email
            /\ row.email = out'.calls[1].email
            /\ row.token = out'.calls[1].returned
            /\ row.organization_id = out'.calls[2].returned
            /\ row.token_expiry = Timestamp(HourFromNow \div TicksPerSecond)
            /\ strptime(row.token_expiry) <= HourFromNow
            /\ strptime(row.token_expiry) > HourFromNow - TicksPerSecond
            /\ users[u].token_expiry.kind = "ts"
               => users[u].token_expiry.sec <= row.token_expiry.sec
            /\ login_conv'[u] = Idle]_vars

\* C11 witness: a login completed half a second after a whole second, over
\* a row stored before; the expiry written is the whole second one hour later.
C11_LoginBetweenSeconds ==
    /\ LoginCompleted
    /\ now % TicksPerSecond = 1
    /\ users[out.chat_id].email = EmailText
    /\ users[out.chat_id].token \in Tokens
    /\ strptime(users[out.chat_id].token_expiry) = HourFromNow - 1
    /\ out.replies[1] = "login_successful"

\* C11 as stated: the expiry stored by a completed login equals the login
\* time plus one hour.
C11_ExpiryIsLoginPlusHour ==
    LoginCompleted =>
        /\ users[out.chat_id].email = user_data[out.chat_id].email
        /\ users[out.chat_id].token = out.calls[1].returned
        /\ users[out.chat_id].organization_id = out.calls[2].returned
        /\ strptime(users[out.chat_id].token_expiry) = HourFromNow
        /\ login_conv[out.chat_id] = Idle

Replied(tag) == \E i \in 1..Len(out.replies) : out.replies[i] = tag
BridgeReplies == {"notifications_disabled", "notifications_error"}

\* C12: a successful verification writes the row, then sends the success
\* message, then starts the bridge, then ends the flow; when the write of the
\* row fails there is no success message, the bridge is not started, the row
\* is as before and the flow is Idle.
C12_WriteBeforeSuccess ==
    [][out'.handler = "verify_otp" =>
        LET u == out'.chat_id
            replies == out'.replies
            success == \E i \in 1..Len(replies) : replies[i] = "login_successful"
            bridge == \E i \in 1..Len(replies) : replies[i] \in BridgeReplies
        IN  /\ out'.db_error
               => /\ ~success
                  /\ ~bridge
                  /\ bindings' = bindings
                  /\ users' = users
                  /\ login_conv'[u] = Idle
            /\ success
               => /\ replies[1] = "login_successful"
                  /\ ~out'.db_error
                  /\ users'[u].chat_id = u
                  /\ users'[u].token = out'.calls[1].returned
                  /\ login_conv'[u] = Idle
            /\ (bridge \/ bindings' # bindings) => success
            /\ users' # users => success]_vars

\* C12 witness: the OTP was verified and the profile fetched, and the write
\* of the row failed.
C12_WriteFailed ==
    /\ out.handler = "verify_otp"
    /\ out.db_error
    /\ Len(out.calls) = 2
    /\ out.replies = <<"error">>
    /\ login_conv[out.chat_id] = Idle

\* verify_otp made the authenticate request and did not get a token from it
\* (the request failed, the status was not 200, or the body did not decode).
VerifyOtpFailed ==
    /\ out.handler = "verify_otp"
    /\ Len(out.calls) = 1

\* C13 (amended): when a well-formed OTP is submitted and verifyOtp fails, no
\* row is written and the stored email and sid are unchanged; the login flow
\* stays at OTP exactly when the failure is an error status whose body
\* decodes (the "invalid OTP" reply), and is Idle after a network failure or
\* an undecodable body.
C13_RejectedOtpStays ==
    [][VerifyOtpFailed' =>
        LET u == out'.chat_id
        IN  /\ users' = users
            /\ user_data' = user_data
            /\ bindings' = bindings
            /\ out'.replies \in {<<"invalid_otp">>, <<"network_error">>, <<"error">>}
            /\ out'.replies = <<"invalid_otp">> => login_conv'[u] = OTP
            /\ out'.replies # <<"invalid_otp">> => login_conv'[u] = Idle]_vars

\* C13 witness: the remote side rejected a well-formed OTP; the flow still
\* waits for an OTP with the email and sid it had.
C13_OtpRejected ==
    /\ VerifyOtpFailed
    /\ out.update = Text(OtpText)
    /\ out.replies = <<"invalid_otp">>
    /\ login_conv[out.chat_id] = OTP
    /\ user_data[out.chat_id].email = EmailText
    /\ user_data[out.chat_id].sid \in Sids

\* C13 as stated: whenever verifyOtp fails the login flow stays at OTP, no
\* row is written and the stored email and sid are unchanged.
C13_FailedOtpStays ==
    [][VerifyOtpFailed' =>
        /\ login_conv'[out'.chat_id] = OTP
        /\ users' = users
        /\ user_data' = user_data]_vars

\* get_email made the OTP request and took no sid from its response.
RequestOtpFailed ==
    /\ out.handler = "get_email"
    /\ Len(out.calls) = 1
    /\ out.calls[1].returned = None

\* C14: when requestOtp does not succeed for a well-formed email the login
\* flow is Idle afterwards; the flow comes to wait for an OTP only by a
\* requestOtp that returned a sid, and a text reaches verify_otp only while
\* the flow waits for an OTP.
C14_FailedRequestEndsLogin ==
    [][\A u \in Users :
        /\ (RequestOtpFailed' /\ out'.chat_id = u)
           => /\ login_conv'[u] = Idle
              /\ users' = users
              /\ out'.replies \in {<<"rate_limited">>, <<"email_not_found">>,
                                   <<"error_sending_otp">>, <<"no_session_id">>,
                                   <<"network_error">>, <<"error">>}
        /\ (login_conv[u] # OTP /\ login_conv'[u] = OTP)
           => /\ out'.handler = "get_email"
              /\ out'.calls[1].returned \in Sids
        /\ (out'.handler = "verify_otp" /\ out'.chat_id = u)
           => login_conv[u] = OTP]_vars

\* C14 witness: after a requestOtp that failed, an OTP-looking text was sent
\* and no handler took it.
C14_OtpTextAfterFailedRequest ==
    /\ out.update = Text(OtpText)
    /\ out.handler = "none"
    /\ login_conv[out.chat_id] = Idle
    /\ user_data[out.chat_id].email = EmailText
    /\ user_data[out.chat_id].sid = None

\* A user who starts a flow only while no other flow is in progress: each
\* conversation takes steps while the other two are Idle.
OthersIdle(u, f) == \A g \in Flows \ {f} : StepOf(g, u) = Idle

OneFlowNext ==
    \E u \in Actors :
        \/ OthersIdle(u, "login") /\ LoginFlow(u)
        \/ OthersIdle(u, "send") /\ SendFlow(u)
        \/ OthersIdle(u, "withdraw") /\ WithdrawFlow(u)
        \/ cancel(u)

OneFlowSpec == Init /\ [][OneFlowNext]_vars

\* No handler repeats a request: the calls of one step go to different
\* operations of the remote API.
NoRetry ==
    \A i, j \in 1..Len(out.calls) : out.calls[i].api = out.calls[j].api => i = j

\* C15 (amended): a failed remote call ends the flow it was made in, and no
\* call is repeated: after a failed requestOtp, a verifyOtp that failed by a
\* network error or an undecodable body, a fetchProfile of any outcome, and a
\* sendFunds or requestWithdrawal of any outcome, the conversation is Idle.
\* The one exception is verifyOtp answered with an error status (429
\* included) and a body that decodes: the login flow stays at OTP.
C15_RemoteErrorEndsFlow ==
    /\ NoRetry
    /\ RequestOtpFailed => login_conv[out.chat_id] = Idle
    /\ VerifyOtpFailed
       => login_conv[out.chat_id] =
              IF out.replies = <<"invalid_otp">> THEN OTP ELSE Idle
    /\ (out.handler = "verify_otp" /\ Len(out.calls) = 2)
       => login_conv[out.chat_id] = Idle
    /\ (out.handler = "send_confirm" /\ out.calls # << >>)
       => send_conv[out.chat_id] = Idle
    /\ (out.handler = "withdraw_confirm" /\ out.calls # << >>)
       => withdraw_conv[out.chat_id] = Idle

\* C15 witness: after a login, a transfer was confirmed and the remote side
\* refused it; the Send flow is Idle.
C15_TransferRefused ==
    /\ out.handler = "send_confirm"
    /\ out.replies = <<"transfer_failed">>
    /\ Len(out.calls) = 1
    /\ out.calls[1].token \in Tokens
    /\ send_conv[out.chat_id] = Idle

\* C15 as stated: after every failed remote call, verifyOtp included, the
\* conversation the call was made in is Idle.
C15_EveryRemoteErrorEndsFlow ==
    /\ RequestOtpFailed => login_conv[out.chat_id] = Idle
    /\ VerifyOtpFailed => login_conv[out.chat_id] = Idle
    /\ (out.handler = "send_confirm" /\ out.calls # << >>
            /\ out.replies # <<"transfer_successful">>)
       => send_conv[out.chat_id] = Idle
    /\ (out.handler = "withdraw_confirm" /\ out.calls # << >>
            /\ out.replies # <<"withdrawal_requested">>)
       => withdraw_conv[out.chat_id] = Idle

\* len(otp) != 6
OtpLength == 6

\* Texts of one character less, as many and one more than an OTP has, of
\* digits and letters.
OtpTexts == UNION {[1..n -> {"1", "a"}] : n \in (OtpLength - 1)..(OtpLength + 1)}

\* The login flow with these texts sent while it waits for the OTP.
OtpNext ==
    \E u \in Actors :
        \/ login(u)
        \/ get_email(u)
        \/ \E t \in OtpTexts : verify_otp_text(u, t)

OtpSpec == Init /\ [][OtpNext]_vars

SixDigits(t) == Len(t) = OtpLength /\ \A k \in 1..Len(t) : t[k] \in Digits

\* C16: while the login flow waits for the OTP, a text that is not exactly 6
\* digits gets the re-prompt, leaves the flow at OTP and causes no request;
\* verifyOtp is called only with a text of exactly 6 digits, which it sends.
C16_OnlySixDigitsVerified ==
    out.handler = "verify_otp" =>
        LET t == out.update.data
        IN  /\ ~SixDigits(t)
               => /\ out.calls = << >>
                  /\ out.replies = <<"invalid_otp_format">>
                  /\ login_conv[out.chat_id] = OTP
            /\ SixDigits(t)
               => /\ out.calls # << >>
                  /\ out.calls[1].api = "verifyOtp"
                  /\ out.calls[1].otp = t

\* C16 witness: six characters of which one is a letter were sent as the OTP
\* and refused without a request.
C16_LetterAmongDigits ==
    /\ out.handler = "verify_otp"
    /\ out.update = Text(<<"1", "1", "1", "a", "1", "1">>)
    /\ out.replies = <<"invalid_otp_format">>
    /\ out.calls = << >>
    /\ login_conv[out.chat_id] = OTP

\* Texts sent at an amount step: negative, zero, not a number, positive with
\* and without a fraction or a sign, and the special values float() accepts.
AmountTexts ==
    {<<"-", "5">>, <<"0">>, <<"0", ".", "0">>, <<"-", "0">>, <<"a", "b", "c">>,
     <<"1", "2", ".", "5">>, <<"5">>, <<"+", "5">>, <<".", "5">>, <<"5", ".">>,
     <<".">>, <<"-">>, <<"1", ".", "2", ".", "3">>,
     <<"n", "a", "n">>, <<"i", "n", "f">>, <<"-", "i", "n", "f">>}

\* The Send and Withdraw flows up to their confirmation keyboards, with these
\* texts sent at the amount steps.
AmountNext ==
    \E u \in Actors :
        \/ send(u)
        \/ send_type(u)
        \/ send_recipient(u)
        \/ withdraw(u)
        \/ \E t \in AmountTexts : send_amount_text(u, t)
        \/ \E t \in AmountTexts : withdraw_amount_text(u, t)

AmountSpec == Init /\ [][AmountNext]_vars

\* The text denotes a number greater than zero (positive infinity counted
\* as one).
PositiveNumber(t) ==
    LET a == ParseFloat(t)
    IN  \/ a.kind = "num" /\ ~a.neg /\ a.num > 0
        \/ a.kind = "inf" /\ ~a.neg

\* C17: at the amount step of Send and of Withdraw the flow moves to the
\* confirmation exactly when the text is a strictly positive number, and then
\* stores that number; otherwise it re-prompts and stays at the amount step.
C17_AdvancesIffPositive ==
    LET t == out.update.data
        u == out.chat_id
    IN  /\ out.handler = "send_amount"
           => /\ send_conv[u] = SEND_CONFIRM <=> PositiveNumber(t)
              /\ PositiveNumber(t) => user_data[u].amount = ParseFloat(t)
              /\ ~PositiveNumber(t)
                 => send_conv[u] = SEND_AMOUNT /\ out.replies = <<"invalid_amount">>
        /\ out.handler = "withdraw_amount"
           => /\ withdraw_conv[u] = WITHDRAW_CONFIRM <=> PositiveNumber(t)
              /\ PositiveNumber(t) => user_data[u].withdraw_amount = ParseFloat(t)
              /\ ~PositiveNumber(t)
                 => withdraw_conv[u] = WITHDRAW_AMOUNT
                    /\ out.replies = <<"invalid_amount">>

\* C18: at the recipient step, with kind email a text that does not match the
\* email pattern gets the re-prompt, is not stored and leaves the flow at the
\* step; with kind wallet (or email and a matching text) the text is stored
\* and the flow moves to the amount step; every sendFunds call to the email
\* endpoint is made with kind email and a recipient that matches the pattern.
C18_EmailRecipientChecked ==
    [][/\ out'.handler = "send_recipient"
          => LET u == out'.chat_id
                 t == out'.update.data
                 kind == user_data[u].send_type
             IN  /\ (kind = "email" /\ ~EmailMatch(t))
                    => /\ user_data' = user_data
                       /\ send_conv'[u] = SEND_RECIPIENT
                       /\ out'.replies = <<"invalid_email">>
                 /\ (kind = "wallet" \/ (kind = "email" /\ EmailMatch(t)))
                    => /\ user_data'[u].recipient = t
                       /\ user_data'[u].send_type = kind
                       /\ send_conv'[u] = SEND_AMOUNT
       /\ (/\ out'.handler = "send_confirm"
           /\ out'.calls # << >>
           /\ out'.calls[1].endpoint = "/transfers/send")
          => /\ user_data[out'.chat_id].send_type = "email"
             /\ EmailMatch(out'.calls[1].recipient)
             /\ out'.calls[1].recipient = flow[out'.chat_id].recipient]_vars

\* C18 witness: with kind email a wallet address was sent as the recipient
\* and refused.
C18_AddressRefusedAsEmail ==
    /\ out.handler = "send_recipient"
    /\ out.update = Text(WalletText)
    /\ user_data[out.chat_id].send_type = "email"
    /\ out.replies = <<"invalid_email">>
    /\ send_conv[out.chat_id] = SEND_RECIPIENT
    /\ flow[out.chat_id].recipient = NoText

\* The update does not have the shape the step of u's only flow in progress
\* expects: free text while a keyboard is awaited, a button of the Send
\* keyboards while a text is awaited, or a text the step refuses.
Mismatch(u, upd) ==
    \/ /\ OthersIdle(u, "send")
       /\ \/ upd.kind = "text" /\ send_conv[u] \in {SEND_TYPE, SEND_CONFIRM}
          \/ /\ upd.kind = "button"
             /\ upd.data \in SendButtons
             /\ send_conv[u] \in {SEND_RECIPIENT, SEND_AMOUNT}
          \/ /\ upd.kind = "text"
             /\ send_conv[u] = SEND_RECIPIENT
             /\ RecipientRejected(user_data[u].send_type, upd.data)
          \/ /\ upd.kind = "text"
             /\ send_conv[u] = SEND_AMOUNT
             /\ AmountOf(upd.data) = ValueError
    \/ /\ OthersIdle(u, "withdraw")
       /\ \/ upd.kind = "text" /\ withdraw_conv[u] = WITHDRAW_CONFIRM
          \/ /\ upd.kind = "text"
             /\ withdraw_conv[u] = WITHDRAW_AMOUNT
             /\ AmountOf(upd.data) = ValueError

\* C19: an update that does not have the shape the current step expects
\* leaves the step and the Flow State as they were, causes no remote call,
\* and is answered with a re-prompt.
C19_MismatchReprompted ==
    [][\A u \in Users :
        (out'.chat_id = u /\ Mismatch(u, out'.update))
        => /\ send_conv' = send_conv
           /\ withdraw_conv' = withdraw_conv
           /\ login_conv' = login_conv
           /\ user_data' = user_data
           /\ out'.calls = << >>
           /\ out'.replies # << >>]_vars

\* The row of u has no expiry string (NULL or empty).
SessionWithoutExpiry(u) == ~SessionMissing(u) /\ users[u].token_expiry.kind = "null"
\* The row of u has an expiry string that does not parse.
SessionUnparsable(u) == ~SessionMissing(u) /\ users[u].token_expiry.kind = "garbage"

\* The rows and clock values the session check is applied to.
GuardRows ==
    {NoRow} \cup
    {SavedRow(u, EmailText, tok, "org1", e) :
        u \in Users, tok \in Tokens \cup {None},
        e \in {NullExpiry, GarbageExpiry} \cup {Timestamp(sec) : sec \in 0..MaxNow}}

\* C20 (amended): the session check answers "expired" exactly when the expiry
\* parses and now >= expiry, "session error" exactly when the row has an
\* expiry string that does not parse (whatever the clock), "please login"
\* exactly when there is no row or the row has no expiry string, and
\* otherwise answers nothing and returns the row as it is, which the handler
\* then uses.
C20_GuardClassifies ==
    /\ \A user \in GuardRows : \A t \in 0..MaxNow :
           LET checked == refresh_token_if_needed(user, t)
           IN  /\ checked.reply = <<"session_expired_login">>
                  <=> /\ IsRow(user)
                      /\ user.token_expiry.kind = "ts"
                      /\ t >= user.token_expiry.sec * TicksPerSecond
               /\ checked.reply = <<"session_error_login">>
                  <=> IsRow(user) /\ user.token_expiry.kind = "garbage"
               /\ checked.reply = <<"please_login">>
                  <=> ~IsRow(user) \/ user.token_expiry.kind = "null"
               /\ checked.user = IF checked.reply = << >> THEN user ELSE NoRow
    /\ (out.handler \in AuthenticatedHandlers /\ ~out.db_error)
       => LET u == out.chat_id
          IN  /\ Replied("session_expired_login") <=> SessionExpired(u)
              /\ Replied("session_error_login") <=> SessionUnparsable(u)
              /\ Replied("please_login") <=> SessionMissing(u) \/ SessionWithoutExpiry(u)
              /\ out.calls # << >> => out.calls[1].token = users[u].token

\* C20 witness: /profile on a row whose expiry is NULL was answered with the
\* reply given when there is no row.
C20_NullExpiryAsMissing ==
    /\ out.handler = "profile"
    /\ ~out.db_error
    /\ SessionWithoutExpiry(out.chat_id)
    /\ out.replies = <<"please_login">>
    /\ out.calls = << >>

\* C20 as stated: "session error" exactly when the expiry of the row fails to
\* parse, and the reply for a missing session only when no row exists.
C20_MalformedIffUnparsable ==
    (out.handler \in AuthenticatedHandlers /\ ~out.db_error)
    => LET u == out.chat_id
       IN  /\ Replied("session_expired_login") <=> SessionExpired(u)
           /\ Replied("session_error_login") <=> SessionMalformed(u)
           /\ Replied("please_login") => SessionMissing(u)

(***************************************************************************)
(* Sessions without a token                                                *)
(***************************************************************************)
\* C21: no remote call that carries "Authorization: Bearer <token>" is made
\* with an absent token, and a row without a token never passes the session
\* check of an authenticated handler.
C21_NoCallWithoutToken ==
    /\ \A i \in 1..Len(out.calls) :
          out.calls[i].api \notin {"requestOtp", "verifyOtp"}
          => out.calls[i].token # None
    /\ (out.handler \in AuthenticatedHandlers /\ out.calls # << >>)
       => users[out.chat_id].token # None

(***************************************************************************)
(* What rewrites a stored session                                          *)
(***************************************************************************)
\* The last step was verify_otp of u after which the success message was sent.
LoggedIn(u) ==
    out.chat_id = u /\ out.handler = "verify_otp" /\ Replied("login_successful")

\* C22: the token and the expiry of a stored row differ after a step only
\* when the step is a verification by that user that reported a successful
\* login; a session that is Expired is not Valid after any other step; and an
\* authenticated handler run on an Expired session makes no call, sends the
\* login prompt and leaves the row and the send and withdraw flows as they are.
C22_OnlyLoginRewrites ==
    [][\A u \in Users :
        /\ (/\ IsRow(users'[u])
            /\ \/ users'[u].token # users[u].token
               \/ users'[u].token_expiry # users[u].token_expiry)
           => LoggedIn(u)'
        /\ (SessionExpired(u) /\ ~LoggedIn(u)') => ~SessionValid(u)'
        /\ (/\ SessionExpired(u)
            /\ out'.chat_id = u
            /\ out'.handler \in AuthenticatedHandlers
            /\ ~out'.db_error)
           => /\ out'.calls = << >>
              /\ out'.replies = <<"session_expired_login">>
              /\ users'[u] = users[u]
              /\ send_conv'[u] = send_conv[u]
              /\ withdraw_conv'[u] = withdraw_conv[u]]_vars

\* C22 witness: a session that was checked while Valid, with a default wallet
\* chosen, has Expired with the token and expiry it had, and /balance was
\* just refused on it.
C22_ExpiredAfterUse ==
    /\ SessionExpired("u1")
    /\ users["u1"].default_wallet # NoWallet
    /\ users["u1"].token = "tok0"
    /\ out.handler = "balance"
    /\ out.replies = <<"session_expired_login">>

(***************************************************************************)
(* Two users                                                               *)
(***************************************************************************)
\* Two users act, each from a valid row holding a token of its own; they
\* run the send flow and /logout.
TwoUserRow(u) ==
    SavedRow(u, EmailText, IF u = "u1" THEN "tok1" ELSE "tok2", "org1",
             Timestamp(HourSeconds))

TwoUserInit ==
    /\ now = 0
    /\ users = [u \in Users |-> TwoUserRow(u)]
    /\ send_conv = [u \in Users |-> Idle]
    /\ withdraw_conv = [u \in Users |-> Idle]
    /\ login_conv = [u \in Users |-> Idle]
    /\ user_data = [u \in Users |-> NoUserData]
    /\ bindings = [u \in Users |-> [o \in Orgs \cup {None} |-> 0]]
    /\ out = NoOut
    /\ flow = [u \in Users |-> NoFlow]

TwoUserNext ==
    \E u \in Users :
        \/ SendFlow(u)
        \/ logout(u)

TwoUserSpec == TwoUserInit /\ [][TwoUserNext]_vars

C24_WalletSurvivesLogin ==
    [][\A u \in Users :
        users'[u].default_wallet # users[u].default_wallet
        => /\ out'.chat_id = u
           /\ \/ out'.handler = "setdefault_callback"
              \/ out'.handler = "logout" /\ ~IsRow(users'[u])]_vars

\* C25: update_default_wallet gives a row that differs from the row it is
\* applied to in default_wallet alone, and gives no row when there was none;
\* a wallet selection changes nothing in the store but the default_wallet of
\* the row of the user who pressed the button, and without a row it changes
\* nothing at all.
C25_UpdateChangesWalletOnly ==
    /\ \A row \in GuardRows, w \in WalletIds :
         LET updated == UpdatedRow(row, <<w[1]>>)
         IN  /\ updated.chat_id = row.chat_id
             /\ updated.email = row.email
             /\ updated.token = row.token
             /\ updated.organization_id = row.organization_id
             /\ updated.token_expiry = row.token_expiry
             /\ IsRow(row) => updated.default_wallet = <<w[1]>>
             /\ ~IsRow(row) => updated = NoRow
    /\ [][out'.handler = "setdefault_callback" =>
            LET u == out'.chat_id
            IN  /\ \A v \in Users \ {u} : users'[v] = users[v]
                /\ users'[u].chat_id = users[u].chat_id
                /\ users'[u].email = users[u].email
                /\ users'[u].token = users[u].token
                /\ users'[u].organization_id = users[u].organization_id
                /\ users'[u].token_expiry = users[u].token_expiry
                /\ out'.calls # << >>
                   => users'[u].default_wallet = out'.calls[1].wallet_id
                /\ ~IsRow(users[u]) => users' = users]_vars

\* C25 witness: a wallet selection replaced the default wallet of a row that
\* held another one, in a store where the row was written by a login.
C25_WalletSelected ==
    /\ out.handler = "setdefault_callback"
    /\ out.calls # << >>
    /\ users["u1"].default_wallet = out.calls[1].wallet_id
    /\ users["u1"].token = "tok1"
    /\ users["u1"].email = EmailText

(***************************************************************************)
(* /logout                                                                 *)
(***************************************************************************)
\* C26: after a /logout that sent the success message the user has no row,
\* whatever row there was, and the rows of the other users are as before; a
\* /logout with no row present whose DELETE went through sends the success
\* message and leaves the store as it was, so a second /logout gives the
\* store of the first; when the DELETE failed the store is as before and the
\* success message is not sent.
C26_LogoutRemovesRow ==
    [][out'.handler = "logout" =>
        LET u == out'.chat_id
        IN  /\ \A v \in Users \ {u} : users'[v] = users[v]
            /\ Replied("logged_out")' <=> ~out'.db_error
            /\ ~out'.db_error => users'[u] = NoRow
            /\ out'.db_error => users' = users /\ out'.replies = <<"error">>
            /\ (~IsRow(users[u]) /\ ~out'.db_error)
               => users' = users /\ out'.replies = <<"logged_out">>
            /\ out'.calls = << >>]_vars

\* C26 witness: a /logout whose DELETE went through left without a row a
\* user whose row had been written by a login, the bridge of which is bound.
C26_LoggedOutAfterLogin ==
    /\ out.handler = "logout"
    /\ out.replies = <<"logged_out">>
    /\ ~IsRow(users["u1"])
    /\ bindings["u1"]["org1"] > 0

(***************************************************************************)
(* The store failing under a read                                          *)
(***************************************************************************)
\* C27: when get_user fails in an authenticated handler the user gets the
\* login prompt, no request is made and the send and withdraw flows are
\* Idle. (setdefault_callback also writes; the handlers named here fail on
\* the read alone.)
C27_ReadFailureAsNoSession ==
    (/\ out.handler \in AuthenticatedHandlers \ {"setdefault_callback"}
     /\ out.db_error)
    => /\ Prompted
       /\ out.calls = << >>
       /\ out.handler = "send" => send_conv[out.chat_id] = Idle
       /\ out.handler = "withdraw" => withdraw_conv[out.chat_id] = Idle

(***************************************************************************)
(* The notification bridge with two users                                  *)
(***************************************************************************)
\* Two users log in, and deposit events arrive for the organizations.
BridgeNext ==
    \/ \E u \in Users : LoginFlow(u)
    \/ \E o \in Orgs \cup {None} : DepositEvent(o)

BridgeSpec == TwoUserInit /\ [][BridgeNext]_vars

\* C28: a login that reported success and no bridge failure leaves the user
\* with a callback bound on the channel of the organization of the row; and
\* a deposit event of an organization sends the notification to every user
\* with a callback bound on its channel, and to no other.
C28_EventReachesEverySubscriber ==
    [][/\ (/\ out'.handler = "verify_otp"
           /\ Replied("login_successful")'
           /\ \A i \in 1..Len(out'.replies) : out'.replies[i] \notin BridgeReplies)
          => bindings'[out'.chat_id][users'[out'.chat_id].organization_id] > 0
       /\ out'.handler = "deposit_event"
          => \A u \in Users :
                bindings[u][out'.update.data[1]] > 0 <=> Replied(u)']_vars

\* C28 witness: both users logged in to the same organization with the
\* bridge bound, and a deposit event of it notified both.
C28_BothNotified ==
    /\ out.handler = "deposit_event"
    /\ out.update.data = <<"org1">>
    /\ users["u1"].organization_id = "org1"
    /\ users["u2"].organization_id = "org1"
    /\ bindings["u1"]["org1"] > 0
    /\ bindings["u2"]["org1"] > 0
    /\ Replied("u1")
    /\ Replied("u2")

\* C29: when start_pusher reports missing credentials or an error, the
\* verification that called it has ended the login flow, the row it saved
\* is in the store and Valid, the session check returns that row, and no
\* callback was bound.
C29_BridgeFailureKeepsSession ==
    [][\A u \in Users :
        (/\ out'.chat_id = u
         /\ out'.handler = "verify_otp"
         /\ \E i \in 1..Len(out'.replies) : out'.replies[i] \in BridgeReplies)
        => /\ login_conv'[u] = Idle
           /\ users'[u].chat_id = u
           /\ users'[u].email = user_data[u].email
           /\ SessionValid(u)'
           /\ refresh_token_if_needed(users'[u], now').user = users'[u]
           /\ bindings' = bindings]_vars

\* C29 witness: a login over an expired row ended with the error message of
\* start_pusher; the session is Valid again.
C29_LoginWithoutBridge ==
    /\ out.handler = "verify_otp"
    /\ out.replies = <<"login_successful", "notifications_error">>
    /\ now = MaxNow
    /\ SessionValid("u1")
    /\ login_conv["u1"] = Idle

(***************************************************************************)
(* The result of a transfer and the flow that asked for it                 *)
(***************************************************************************)
\* The replies that report the answer of sendFunds and requestWithdrawal
\* (a request that raised is reported with the network error message).
ResultReplies ==
    {"transfer_successful", "transfer_failed", "withdrawal_requested",
     "withdrawal_failed"}

\* C30: a transfer or withdrawal request is made, and its result reported,
\* only within the step of the Confirm press of a flow that is at its
\* confirmation step when the press is handled: the request, carrying the
\* recipient and amount of that flow, and the reply belong to one step, so
\* no step that cancels or replaces the flow lies between them; a Confirm
\* press that arrives when the flow is no longer at that step makes no
\* request and gets no result.
C30_ResultOnlyForCurrentFlow ==
    [][\A u \in Users :
        (/\ out'.chat_id = u
         /\ \/ \E i \in 1..Len(out'.replies) : out'.replies[i] \in ResultReplies
            \/ \E i \in 1..Len(out'.calls) :
                  out'.calls[i].api \in {"sendFunds", "requestWithdrawal"})
        => /\ Len(out'.replies) = 1
           /\ Len(out'.calls) = 1
           /\ \/ /\ out'.handler = "send_confirm"
                 /\ send_conv[u] = SEND_CONFIRM
                 /\ send_conv'[u] = Idle
                 /\ out'.calls[1].api = "sendFunds"
                 /\ out'.calls[1].recipient = user_data[u].recipient
                 /\ out'.calls[1].amount = user_data[u].amount
                 /\ out'.replies[1] \in {"transfer_successful", "transfer_failed",
                                         "network_error"}
              \/ /\ out'.handler = "withdraw_confirm"
                 /\ withdraw_conv[u] = WITHDRAW_CONFIRM
                 /\ withdraw_conv'[u] = Idle
                 /\ out'.calls[1].api = "requestWithdrawal"
                 /\ out'.calls[1].amount = user_data[u].withdraw_amount
                 /\ out'.replies[1] \in {"withdrawal_requested",
                                         "withdrawal_failed",
                                         "network_error"}]_vars

\* C30 witness: the Confirm button of a send flow that had a recipient and an
\* amount is pressed when the flow has been cancelled; no handler takes it,
\* nothing is requested and nothing is replied.
C30_ConfirmAfterCancel ==
    /\ out.update = ButtonPress(<<"send", "confirm">>)
    /\ out.handler = "none"
    /\ out.replies = << >>
    /\ out.calls = << >>
    /\ send_conv["u1"] = Idle
    /\ user_data["u1"].recipient # NoText
    /\ Truthy(user_data["u1"].amount)
    /\ flow["u1"].sent = 0

(***************************************************************************)
(* /cancel with no flow in progress                                        *)
(***************************************************************************)
\* C31: a /cancel of a user whose three flows are Idle is taken by no
\* handler: nothing is replied, nothing is requested, and the conversation
\* steps, the flow state, the store and the subscriptions are as before, so
\* the next /cancel finds the same state.
C31_CancelWhenIdleIsNoOp ==
    [][\A u \in Users :
        (/\ out'.chat_id = u
         /\ out'.update = Command("cancel")
         /\ AllIdle(u))
        => /\ out'.handler = "none"
           /\ out'.replies = << >>
           /\ out'.calls = << >>
           /\ ~out'.db_error
           /\ AllIdle(u)'
           /\ user_data' = user_data
           /\ flow' = flow
           /\ users' = users
           /\ bindings' = bindings]_vars

\* C31 witness: a /cancel was dropped for a user with a row in the store
\* and the data of a login flow left in user_data, all flows being Idle.
C31_CancelDropped ==
    /\ out.update = Command("cancel")
    /\ out.handler = "none"
    /\ AllIdle("u1")
    /\ IsRow(users["u1"])
    /\ user_data["u1"].sid # None

(***************************************************************************)
(* One handler for one update                                              *)
(***************************************************************************)
\* C32: a step changes the step of at most one flow of the user; a text is
\* taken by the send flow when that awaits a text, else by the withdraw flow
\* when that awaits one, else by the login flow when that awaits one, and by
\* no handler otherwise; the steps of the flows that did not take it are as
\* before.
C32_TextTakenInRegistrationOrder ==
    [][\A u \in Users :
        out'.chat_id = u
        => LET sends == send_conv[u] \in {SEND_RECIPIENT, SEND_AMOUNT}
               withdraws == withdraw_conv[u] = WITHDRAW_AMOUNT
               logins == login_conv[u] \in {EMAIL, OTP}
               same(f) == StepOf(f, u)' = StepOf(f, u)
           IN  /\ Cardinality({f \in Flows : ~same(f)}) <= 1
               /\ out'.update.kind = "text"
                  => /\ sends
                        => /\ out'.handler \in {"send_recipient", "send_amount"}
                           /\ same("withdraw") /\ same("login")
                     /\ (~sends /\ withdraws)
                        => /\ out'.handler = "withdraw_amount"
                           /\ same("send") /\ same("login")
                     /\ (~sends /\ ~withdraws /\ logins)
                        => /\ out'.handler \in {"get_email", "verify_otp"}
                           /\ same("send") /\ same("withdraw")
                     /\ (~sends /\ ~withdraws /\ ~logins)
                        => /\ out'.handler = "none"
                           /\ \A f \in Flows : same(f)]_vars

\* C32 witness: a text arrived while the send flow awaited a recipient, the
\* withdraw flow an amount and the login flow an email; the send flow took
\* it as the recipient and went on, the other two are where they were.
C32_SendTakesTheText ==
    /\ out.handler = "send_recipient"
    /\ send_conv["u1"] = SEND_AMOUNT
    /\ withdraw_conv["u1"] = WITHDRAW_AMOUNT
    /\ login_conv["u1"] = EMAIL
    /\ user_data["u1"].recipient = out.update.data
    /\ user_data["u1"].email = NoText

(***************************************************************************)
(* The stored default wallet and the remote one                            *)
(***************************************************************************)
\* C33: after a wallet button press the stored default wallet is the wallet
\* pressed when the request to /wallets/default succeeded, and is what it
\* was before the press when the request failed or was not made.
C33_StoredOnlyWhenRemoteSet ==
    [][\A u \in Users :
        (out'.chat_id = u /\ out'.handler = "setdefault_callback")
        => /\ Replied("default_wallet_set")'
              => users'[u].default_wallet = <<out'.update.data[2]>>
           /\ ~Replied("default_wallet_set")'
              => users'[u].default_wallet = users[u].default_wallet]_vars

(***************************************************************************)
(* The pair verify_otp sends                                               *)
(***************************************************************************)
\* Two addresses and an OTP: what a user types over several login attempts.
LoginTexts == {EmailText, <<"d", "@", "e", ".", "f">>, OtpText}

\* The login flow, started, abandoned and started again.
LoginNext ==
    \E u \in Actors :
        \/ login(u)
        \/ \E t \in LoginTexts : get_email_text(u, t)
        \/ \E t \in LoginTexts : verify_otp_text(u, t)
        \/ cancel(u)

LoginSpec == Init /\ [][LoginNext]_vars

\* C34: the login flow comes to await the OTP only through a get_email whose
\* request returned a sid, and that step stores the email it sent and the
\* sid it got; while the flow awaits the OTP neither is changed; and the
\* authenticate request is made only while the flow awaits the OTP, with the
\* stored email and sid.  So the pair sent is the pair of the latest
\* successful request of the flow in progress.
C34_VerifySendsLatestPair ==
    [][\A u \in Users :
        /\ (login_conv'[u] = OTP /\ login_conv[u] # OTP)
           => /\ out'.chat_id = u
              /\ out'.handler = "get_email"
              /\ Len(out'.calls) = 1
              /\ out'.calls[1].returned # None
              /\ user_data'[u].email = out'.calls[1].email
              /\ user_data'[u].sid = out'.calls[1].returned
        /\ (login_conv[u] = OTP /\ login_conv'[u] = OTP)
           => /\ user_data'[u].email = user_data[u].email
              /\ user_data'[u].sid = user_data[u].sid
        /\ \A i \in 1..Len(out'.calls) :
              (out'.chat_id = u /\ out'.calls[i].api = "verifyOtp")
              => /\ login_conv[u] = OTP
                 /\ out'.calls[i].email = user_data[u].email
                 /\ out'.calls[i].sid = user_data[u].sid
                 /\ out'.calls[i].email # NoText
                 /\ out'.calls[i].sid # None]_vars

\* C34 witness: after a login with one address was completed, a later
\* attempt with another address got its sid; the authenticate request
\* carries that address and that sid.
C34_VerifyAfterOtherAttempt ==
    /\ out.handler = "verify_otp"
    /\ out.calls # << >>
    /\ out.calls[1].email = <<"d", "@", "e", ".", "f">>
    /\ out.calls[1].sid = "sid1"
    /\ users["u1"].email = EmailText
    /\ users["u1"].token = "tok1"

(***************************************************************************)
(* The token after /logout                                                 *)
(***************************************************************************)
\* C35: a /logout that sent the success message leaves the user without a
\* row; and a step of a user without a row makes no request but those of the
\* login flow, which carry the token of the bot and, for the profile, the
\* token the authenticate request just returned: nothing carries a token
\* the store held before.
C35_NoCallAfterLogout ==
    [][\A u \in Users :
        /\ (out'.chat_id = u /\ out'.handler = "logout" /\ Replied("logged_out")')
           => ~IsRow(users'[u])
        /\ (out'.chat_id = u /\ ~IsRow(users[u]))
           => \A i \in 1..Len(out'.calls) :
                 \/ /\ out'.calls[i].api \in {"requestOtp", "verifyOtp"}
                    /\ out'.calls[i].token = ApiToken
                 \/ /\ out'.calls[i].api = "fetchProfile"
                    /\ out'.handler = "verify_otp"
                    /\ out'.calls[i].token = out'.calls[1].returned]_vars

\* C35 witness: Confirm was pressed in a send flow that had reached its
\* confirmation step before the user logged out; the login prompt is sent
\* and nothing is requested.
C35_ConfirmAfterLogout ==
    /\ out.handler = "send_confirm"
    /\ out.replies = <<"please_login">>
    /\ out.calls = << >>
    /\ ~IsRow(users["u1"])
    /\ user_data["u1"].recipient # NoText
    /\ Truthy(user_data["u1"].amount)

(***************************************************************************)
(* Deposit events after /logout and after repeated logins                  *)
(***************************************************************************)
\* One user logs in, logs out and logs in again while deposit events arrive.
EventNext ==
    \/ \E u \in Actors : LoginFlow(u) \/ logout(u)
    \/ \E o \in Orgs \cup {None} : DepositEvent(o)

EventSpec == Init /\ [][EventNext]_vars

\* C36: a deposit event of an organization is sent to a user only when the
\* user has a row in the store whose organization is that of the event.
C36_NoEventAfterLogout ==
    \A u \in Users :
        (out.handler = "deposit_event" /\ Replied(u))
        => /\ IsRow(users[u])
           /\ users[u].organization_id = out.update.data[1]

\* C37: one deposit event is sent to a user at most once, however often the
\* user has logged in.
C37_OneNotificationPerEvent ==
    out.handler = "deposit_event"
    => \A u \in Users :
          Cardinality({i \in 1..Len(out.replies) : out.replies[i] = u}) <= 1

====
